---------------------------- MODULE Spec2Model ----------------------------
(***************************************************************************)
(* blockade-recon: the device catalog (DeviceList / KnownDevice) and the   *)
(* 'sniff loop of main() that folds captured frames into it, together with *)
(* the key-event channel filled by the input thread.                       *)
(*                                                                         *)
(* Option<T> is modelled as a sequence: None is <<>>, Some(x) is <<x>>.    *)
(***************************************************************************)
EXTENDS Naturals, Sequences, FiniteSets

VARIABLES
    devices,     \* main.rs:96   DeviceList: HashMap<MacAddress, KnownDevice>
    pc,          \* position of the main thread
    stdin,       \* ui.rs:165    the mpsc channel of keys (Input.stdin)
    tabs,        \* ui.rs:132    TabState.index
    packet,      \* main.rs:130  the packet most recently returned by capture.next()
    bar,         \* main.rs:215  the Vec returned by the last bar_data() call
    titles,      \* ui.rs:131    TabState.titles.len()
    list,        \* ui.rs:62     ListState: the selected index and item_count
    report,      \* main.rs:158  the catalog printed by the exit report
    buf,         \* main.rs:133  the MAC-frame bytes handed to wifi::Frame::parse
    env,         \* what the capture source and the keyboard may deliver (fixed per run)
    \* history variables (not program state)
    klog,        \* the keys the input thread sent and those the loop received, in order
    lastop,      \* the ListState / TabState method called last
    lookups,     \* number of oui_db.query_by_mac calls made so far
    seen,        \* addresses referenced by the decoded frames applied so far
    sources,     \* addresses that were the source of an applied beacon
    lastBeacon,  \* source address -> SSID of its most recently applied beacon
    clean,       \* the catalog folded from the successfully decoded frames only
    pre          \* state of the last frame's subject address before it was applied

vars == <<devices, pc, stdin, tabs, packet, bar, titles, list, report, buf, env,
          klog, lastop, lookups, seen, sources, lastBeacon, clean, pre>>

aux == <<titles, list, report, buf, env, lastop>>

hist == <<lookups, seen, sources, lastBeacon, clean, pre>>

----------------------------------------------------------------------------
(* Bounds *)

NumAddr == 2      \* distinct hardware addresses on the air
MaxQueue == 1     \* key events waiting in the channel
MaxKeys == 3      \* key events the input thread sends in a run that logs them

Addresses == 1..NumAddr

NoAddr == 0

\* SSIDs carried by beacons; "" is the zero-length SSID
Ssids == {"", "A"}

----------------------------------------------------------------------------
(* Option *)

None == <<>>

Some(x) == <<x>>

----------------------------------------------------------------------------
(* The OUI database and KnownDevice *)

\* Vendor short names in alphabetical (byte-wise str::cmp) order
VendorOrder == <<"Acme", "Bolt", "Zeta">>

VendorNames == {VendorOrder[i] : i \in 1..Len(VendorOrder)}

Rank(name) == CHOOSE i \in 1..Len(VendorOrder) : VendorOrder[i] = name

\* oui_db.query_by_mac(&address): the database is compiled into the binary
\* (include_str!), so it is one fixed mapping; an address whose prefix is
\* not listed resolves to None.
query_by_mac(address) ==
    CASE address = 1 -> Some("Zeta")
      [] address = 2 -> None
      [] address = 3 -> Some("Acme")
      [] OTHER -> Some("Zeta")

\* KnownDevice::new
KnownDevice_new(address) ==
    [manufacturer |-> query_by_mac(address), beacon |-> None, sent |-> FALSE]

\* KnownDevice::sent flipping the flag instead of setting it
sent_toggle(device) == [device EXCEPT !.sent = ~@]

\* KnownDevice::sent
sent(device) == [device EXCEPT !.sent = TRUE]

\* KnownDevice::beacon keeping the first SSID it was given
beacon_keep_first(device, ssid) ==
    IF device.beacon = None THEN [device EXCEPT !.beacon = Some(ssid)] ELSE device

\* KnownDevice::beacon storing None for an empty SSID
beacon_empty_is_none(device, ssid) ==
    [device EXCEPT !.beacon = IF ssid = "" THEN None ELSE Some(ssid)]

\* KnownDevice::beacon
beacon(device, ssid) == [device EXCEPT !.beacon = Some(ssid)]

EmptyMap == [a \in {} |-> None]

\* DeviceList::get_or_default without the contains_key test: always inserts
get_or_default_always_insert(st, address) ==
    [map |-> [a \in DOMAIN st.map \cup {address} |->
                 IF a = address THEN KnownDevice_new(address) ELSE st.map[a]],
     lookups |-> st.lookups + 1]

\* DeviceList::get_or_default querying the database on every call
get_or_default_requery(st, address) ==
    [map |-> [a \in DOMAIN st.map \cup {address} |->
                 IF a \notin DOMAIN st.map THEN KnownDevice_new(address)
                 ELSE IF a = address
                      THEN [st.map[a] EXCEPT !.manufacturer = query_by_mac(address)]
                      ELSE st.map[a]],
     lookups |-> st.lookups + 1]

\* DeviceList::get_or_default. st is the catalog together with the count of
\* database queries; the handle returned by the code is st.map[address].
get_or_default(st, address) ==
    IF address \in DOMAIN st.map
    THEN st
    ELSE [map |-> [a \in DOMAIN st.map \cup {address} |->
                      IF a = address THEN KnownDevice_new(address) ELSE st.map[a]],
          lookups |-> st.lookups + 1]

----------------------------------------------------------------------------
(* Captured packets, as main() sees them: whether Radiotap::parse accepts *)
(* the header, and what wifi::Frame::parse returns for the rest.          *)

Pkt(kind, source, destination, receiver, ssid) ==
    [kind |-> kind, source |-> source, destination |-> destination,
     receiver |-> receiver, ssid |-> ssid]

NoPacket == Pkt("None", NoAddr, NoAddr, NoAddr, "")

\* no bytes handed to the decoder yet
NoBuffer == [ftype |-> 3, subtype |-> 0, len |-> 0, addr1 |-> NoAddr, addr2 |-> NoAddr,
             ies |-> <<>>]

Beacons == {Pkt("Beacon", s, d, NoAddr, n) : s \in Addresses, d \in Addresses, n \in Ssids}

Acks == {Pkt("Ack", NoAddr, NoAddr, r, "") : r \in Addresses}

DecodeErrors == {"Truncated", "MalformedElement"}

Others == {Pkt(k, NoAddr, NoAddr, NoAddr, "") :
              k \in {"Unhandled", "BadRadiotap"} \cup DecodeErrors}

Packets == Beacons \cup Acks \cup Others

RadiotapOk(p) == p.kind # "BadRadiotap"

ParseOk(p) == p.kind \in {"Beacon", "Ack", "Unhandled"}

\* The match without the lookup of the beacon's destination
ApplyFrame_skip_destination(st, frame) ==
    CASE frame.kind = "Beacon" ->
            LET s1 == get_or_default(st, frame.source)
            IN  [s1 EXCEPT !.map[frame.source] = beacon(sent(@), frame.ssid)]
      [] frame.kind = "Ack" -> get_or_default(st, frame.receiver)
      [] OTHER -> st

\* The match with the ack's receiver marked as having sent
ApplyFrame_ack_marks_sent(st, frame) ==
    CASE frame.kind = "Beacon" ->
            LET s1 == get_or_default(st, frame.source)
                s2 == [s1 EXCEPT !.map[frame.source] = beacon(sent(@), frame.ssid)]
            IN  get_or_default(s2, frame.destination)
      [] frame.kind = "Ack" ->
            LET s1 == get_or_default(st, frame.receiver)
            IN  [s1 EXCEPT !.map[frame.receiver] = sent(@)]
      [] OTHER -> st

\* The match with the SSID recorded for the beacon's destination as well
ApplyFrame_ssid_on_destination(st, frame) ==
    CASE frame.kind = "Beacon" ->
            LET s1 == get_or_default(st, frame.source)
                s2 == [s1 EXCEPT !.map[frame.source] = beacon(sent(@), frame.ssid)]
                s3 == get_or_default(s2, frame.destination)
            IN  [s3 EXCEPT !.map[frame.destination] = beacon(@, frame.ssid)]
      [] frame.kind = "Ack" -> get_or_default(st, frame.receiver)
      [] OTHER -> st

\* The match on the decoded frame (main.rs:136-154)
ApplyFrame(st, frame) ==
    CASE frame.kind = "Beacon" ->
            LET s1 == get_or_default(st, frame.source)
                s2 == [s1 EXCEPT !.map[frame.source] = beacon(sent(@), frame.ssid)]
            IN  get_or_default(s2, frame.destination)
      [] frame.kind = "Ack" -> get_or_default(st, frame.receiver)
      [] OTHER -> st

\* The loop body with a failed decode leaving the loop
sniff_body_break_on_err(st, p) ==
    IF ~RadiotapOk(p)
    THEN [st |-> st, pc |-> "panic"]
    ELSE IF ParseOk(p)
         THEN [st |-> ApplyFrame(st, p), pc |-> "drain"]
         ELSE [st |-> st, pc |-> "done"]

\* The loop body taking a failed decode for a frame that names address 1
sniff_body_applies_partial(st, p) ==
    IF ~RadiotapOk(p)
    THEN [st |-> st, pc |-> "panic"]
    ELSE IF ParseOk(p)
         THEN [st |-> ApplyFrame(st, p), pc |-> "drain"]
         ELSE [st |-> get_or_default(st, 1), pc |-> "drain"]

\* The loop body after capture.next(): Radiotap::parse(..).unwrap(), then
\* `if let Ok(frame) = wifi::Frame::parse(data)`; gives the catalog and where
\* the main thread goes next.
sniff_body(st, p) ==
    IF ~RadiotapOk(p)
    THEN [st |-> st, pc |-> "panic"]
    ELSE IF ParseOk(p)
         THEN [st |-> ApplyFrame(st, p), pc |-> "drain"]
         ELSE [st |-> st, pc |-> "drain"]

----------------------------------------------------------------------------
(* Keys and TabState *)

NumPages == 2

Key(name, i) == [key |-> name, i |-> i]

\* Key::F(i) carries a u8: one index inside the tab list, one past its end
FIndex == {0, 2}

\* Up/Down and PageUp/PageDown reach the page's cursor only: one key of each pair
NavKeys == {"Up", "PageDown"}

Keys == {Key(n, 0) : n \in {"Esc", "Tab", "Other"} \cup NavKeys}
        \cup {Key("F", i) : i \in FIndex}

\* TabState::select storing the index as given
select_unclamped(index) == index

\* TabState::select: index.clamp(0, titles.len() - 1)
select(index) == IF index > titles - 1 THEN titles - 1 ELSE index

\* TabState::next
next(index) == IF index >= titles - 1 THEN 0 ELSE index + 1

\* TabState::previous
previous(index) == IF index <= 0 THEN titles - 1 ELSE index - 1


----------------------------------------------------------------------------
(* The input thread (ui.rs:166-173) *)

\* keys.next() yields Some(Ok(key)): tx.send(key)
InputKey ==
    /\ pc \in {"select", "drain", "capture", "apply"}
    /\ Len(stdin) < env.qcap
    /\ env.log => Len(klog.produced) < MaxKeys
    /\ \E k \in env.keys :
          /\ stdin' = Append(stdin, k)
          /\ klog' = IF env.log THEN [klog EXCEPT !.produced = Append(@, k)] ELSE klog
    /\ UNCHANGED <<devices, pc, tabs, packet, bar, hist, aux>>

----------------------------------------------------------------------------
(* The 'sniff loop (main.rs:99-156) *)

\* receiving a key and discarding the keys queued behind it
Received_discard_rest(name) ==
    /\ pc = "drain"
    /\ stdin # <<>>
    /\ Head(stdin).key = name
    /\ stdin' = <<>>
    /\ klog' = IF env.log THEN [klog EXCEPT !.consumed = Append(@, Head(stdin))] ELSE klog

\* one iteration of `for key in input.stdin.try_iter()` that receives a key
Received(name) ==
    /\ pc = "drain"
    /\ stdin # <<>>
    /\ Head(stdin).key = name
    /\ stdin' = Tail(stdin)
    /\ klog' = IF env.log THEN [klog EXCEPT !.consumed = Append(@, Head(stdin))] ELSE klog

\* Key::Esc => break 'sniff
KeyEsc ==
    /\ Received("Esc")
    /\ pc' = "done"
    /\ UNCHANGED <<devices, tabs, packet, bar, hist, aux>>

\* Key::F(i) => tabs.select(i as usize)
KeyF ==
    /\ Received("F")
    /\ tabs' = select(Head(stdin).i)
    /\ UNCHANGED <<devices, pc, packet, bar, hist, aux>>

\* Key::Char('\t') => tabs.next()
KeyTab ==
    /\ Received("Tab")
    /\ tabs' = next(tabs)
    /\ UNCHANGED <<devices, pc, packet, bar, hist, aux>>

\* Up, Down, PageUp, PageDown => pages[tabs.index].up() .. bottom(): the page's
\* own cursor, which is no part of the catalog
KeyNav ==
    /\ \E n \in NavKeys : Received(n)
    /\ UNCHANGED <<devices, pc, tabs, packet, bar, hist, aux>>

\* _ => ()
KeyOther ==
    /\ Received("Other")
    /\ UNCHANGED <<devices, pc, tabs, packet, bar, hist, aux>>

\* the drain ending after at most one key, whatever is still queued
DrainDone_keys_left ==
    /\ pc = "drain"
    /\ pc' = "capture"
    /\ UNCHANGED <<devices, stdin, tabs, packet, bar, hist, aux, klog>>

\* try_iter() finds the channel empty: the for loop ends, the terminal is drawn
DrainDone ==
    /\ pc = "drain"
    /\ stdin = <<>>
    /\ pc' = "capture"
    /\ UNCHANGED <<devices, stdin, tabs, packet, bar, hist, aux, klog>>

\* terminal.draw(..) returns Err: expect("Unable to draw to stdout") panics
DrawFail ==
    /\ pc = "drain"
    /\ stdin = <<>>
    /\ pc' = "panic"
    /\ UNCHANGED <<devices, stdin, tabs, packet, bar, hist, aux, klog>>

\* capture.next().unwrap() returns a packet; savefile.write(&packet)
CaptureNext ==
    /\ pc = "capture"
    /\ \E p \in env.air : packet' = p
    /\ pc' = "apply"
    /\ UNCHANGED <<devices, stdin, tabs, bar, hist, aux, klog>>

\* capture.next() returns Err: unwrap() panics
CaptureFail ==
    /\ pc = "capture"
    /\ pc' = "panic"
    /\ packet' = NoPacket
    /\ UNCHANGED <<devices, stdin, tabs, bar, hist, aux, klog>>

\* the exit report printing a catalog made anew instead of `devices`
ExitReport_default ==
    /\ pc = "done"
    /\ report' = Some(EmptyMap)
    /\ pc' = "exited"
    /\ UNCHANGED <<devices, stdin, tabs, packet, bar, hist, klog,
                   titles, list, buf, env, lastop>>

\* after the loop: drop(terminal); println!("Found:\n{:?}", devices). The
\* Debug text of a HashMap lists every entry once, in no fixed order: the
\* report is modelled by the entries it lists.
ExitReport ==
    /\ pc = "done"
    /\ report' = Some(devices)
    /\ pc' = "exited"
    /\ UNCHANGED <<devices, stdin, tabs, packet, bar, hist, klog,
                   titles, list, buf, env, lastop>>

Decoded(p) == RadiotapOk(p) /\ ParseOk(p)

\* addresses a decoded frame makes the loop look up in the catalog
Refs(p) ==
    CASE p.kind = "Beacon" -> {p.source, p.destination}
      [] p.kind = "Ack" -> {p.receiver}
      [] OTHER -> {}

\* what the catalog held for address a: whether a record existed, its flag, its SSID
Held(map, a) ==
    IF a \notin DOMAIN map THEN [held |-> "absent", beacon |-> None]
    ELSE [held |-> IF map[a].sent THEN "sent" ELSE "unsent", beacon |-> map[a].beacon]

NoSubject == [held |-> "none", beacon |-> None]

\* Radiotap::parse and wifi::Frame::parse on the captured packet, and the
\* match on the frame (main.rs:133-155)
Sniff ==
    /\ pc = "apply"
    /\ LET r == sniff_body([map |-> devices, lookups |-> lookups], packet)
       IN  /\ devices' = r.st.map
           /\ lookups' = r.st.lookups
           /\ pc' = r.pc
    /\ seen' = IF Decoded(packet) THEN seen \cup Refs(packet) ELSE seen
    /\ sources' = IF Decoded(packet) /\ packet.kind = "Beacon"
                  THEN sources \cup {packet.source} ELSE sources
    /\ lastBeacon' = IF Decoded(packet) /\ packet.kind = "Beacon"
                     THEN [a \in DOMAIN lastBeacon \cup {packet.source} |->
                              IF a = packet.source THEN packet.ssid ELSE lastBeacon[a]]
                     ELSE lastBeacon
    /\ clean' = IF Decoded(packet)
                THEN ApplyFrame([map |-> clean, lookups |-> 0], packet).map
                ELSE clean
    /\ pre' = CASE Decoded(packet) /\ packet.kind = "Beacon" -> Held(devices, packet.source)
                [] Decoded(packet) /\ packet.kind = "Ack" -> Held(devices, packet.receiver)
                [] OTHER -> NoSubject
    /\ UNCHANGED <<stdin, tabs, packet, bar, aux, klog>>

\* the state on entering 'sniff, but for env
Start ==
    /\ devices = EmptyMap
    /\ pc = "drain"
    /\ stdin = <<>>
    /\ tabs = 0
    /\ titles = NumPages
    /\ list = [selected |-> 0, item_count |-> 0]
    /\ report = None
    /\ buf = NoBuffer
    /\ packet = NoPacket
    /\ bar = <<>>
    /\ klog = [produced |-> <<>>, consumed |-> <<>>]
    /\ lastop = "new"
    /\ lookups = 0
    /\ seen = {}
    /\ sources = {}
    /\ lastBeacon = EmptyMap
    /\ clean = EmptyMap
    /\ pre = NoSubject

Init ==
    /\ Start
    /\ env = [air |-> Packets, keys |-> Keys, qcap |-> MaxQueue, log |-> FALSE]

Next ==
    \/ InputKey
    \/ KeyEsc
    \/ KeyF
    \/ KeyTab
    \/ KeyNav
    \/ KeyOther
    \/ DrainDone
    \/ CaptureNext
    \/ CaptureFail
    \/ Sniff
    \/ DrawFail
    \/ ExitReport

Spec == Init /\ [][Next]_vars

----------------------------------------------------------------------------
(* The same loop with the keys logged, for the properties of the hand-over *)
(* between the input thread and the loop: a longer channel, one key per    *)
(* match arm, and a capture source that yields three kinds of packet.      *)

MaxLoopQueue == 2   \* key events waiting in the channel

LoopKeys == {Key("Esc", 0), Key("Tab", 0), Key("Up", 0), Key("Other", 0), Key("F", 2)}

LoopPackets == {Pkt("Beacon", 1, 2, NoAddr, "A"),
                Pkt("Truncated", NoAddr, NoAddr, NoAddr, ""),
                Pkt("BadRadiotap", NoAddr, NoAddr, NoAddr, "")}

InitLoop ==
    /\ Start
    /\ env = [air |-> LoopPackets, keys |-> LoopKeys, qcap |-> MaxLoopQueue, log |-> TRUE]

\* the steps of the main thread
MainStep ==
    \/ KeyEsc
    \/ KeyF
    \/ KeyTab
    \/ KeyNav
    \/ KeyOther
    \/ DrainDone
    \/ DrawFail
    \/ CaptureNext
    \/ CaptureFail
    \/ Sniff
    \/ ExitReport

\* The main thread is never descheduled for ever, and capture.next() returns
\* (with a packet or an error) whenever the loop waits in it.
SpecLoop == InitLoop /\ [][Next]_vars /\ WF_vars(MainStep)

----------------------------------------------------------------------------
(* wifi::Frame::parse. mod wifi (main.rs:18) is not among the source files: *)
(* the decoder is written from its specification (FrameDecoder, 4.1).       *)
(* A buffer is described by its frame-control type and subtype, its length  *)
(* in bytes, its first two address fields, and, for a beacon, the           *)
(* information elements that follow the fixed body; of each element, the    *)
(* declared length and the bytes of value the buffer really holds (avail).  *)

FrameControlLen == 2     \* frame-control field
MacHeaderLen == 24       \* frame-control, duration, addr1..addr3, sequence-control
BeaconFixedLen == 12     \* timestamp(8) + interval(2) + capability(2)
AckLen == 10             \* frame-control(2) + duration(2) + receiver-address(6)

TypeManagement == 0
TypeControl == 1
TypeData == 2
SubtypeBeacon == 8
SubtypeAck == 13
TagSsid == 0

MaxIes == 2   \* information elements in a beacon

Ie(tag, length, avail, value) ==
    [tag |-> tag, length |-> length, avail |-> avail, value |-> value]

\* whole elements: a zero-length SSID, the SSID "A", a one-byte element of another tag
WholeIes == {Ie(TagSsid, 0, 0, ""), Ie(TagSsid, 1, 1, "A"), Ie(1, 1, 1, "r")}

\* elements whose declared length runs past the end of the buffer
CutIes == {Ie(TagSsid, 2, 1, "A"), Ie(1, 2, 0, "")}

\* element sequences: only the last element can be cut short by the buffer's end
IeSeqs ==
    UNION {[1..n -> WholeIes \cup CutIes] : n \in 0..MaxIes}

WellPlaced(ies) == \A i \in 1..(Len(ies) - 1) : ies[i] \in WholeIes

RECURSIVE IesLen(_)
IesLen(ies) == IF ies = <<>> THEN 0 ELSE 2 + ies[1].avail + IesLen(Tail(ies))

Buffer(ftype, subtype, len, addr1, addr2, ies) ==
    [ftype |-> ftype, subtype |-> subtype, len |-> len, addr1 |-> addr1,
     addr2 |-> addr2, ies |-> ies]

IsBeacon(b) == b.ftype = TypeManagement /\ b.subtype = SubtypeBeacon

IsAck(b) == b.ftype = TypeControl /\ b.subtype = SubtypeAck

\* lengths below and at each boundary of the decoder
ShortLens == {0, 1, FrameControlLen, AckLen - 1, MacHeaderLen - 1, MacHeaderLen,
              MacHeaderLen + BeaconFixedLen - 1}

FrameKinds == {<<TypeManagement, SubtypeBeacon>>, <<TypeControl, SubtypeAck>>,
               <<TypeManagement, 4>>, <<TypeData, 0>>}

Buffers ==
    \* beacons with a whole header and fixed body, all to one destination
    {Buffer(TypeManagement, SubtypeBeacon, MacHeaderLen + BeaconFixedLen + IesLen(ies),
            1, s, ies) :
        s \in Addresses, ies \in {x \in IeSeqs : WellPlaced(x)}}
    \cup
    \* acks of exactly the minimum length and with trailing bytes
    {Buffer(TypeControl, SubtypeAck, n, r, NoAddr, <<>>) :
        r \in Addresses, n \in {AckLen, AckLen + 4}}
    \cup
    \* buffers of every kind cut short
    {Buffer(k[1], k[2], n, NoAddr, NoAddr, <<>>) : k \in FrameKinds, n \in ShortLens}

\* the minimum length of a buffer of b's type and subtype
MinLen(b) ==
    CASE IsBeacon(b) -> MacHeaderLen + BeaconFixedLen
      [] IsAck(b) -> AckLen
      [] OTHER -> FrameControlLen

\* the value of the first element with tag 0, if any
RECURSIVE FirstSsid(_)
FirstSsid(ies) ==
    IF ies = <<>> THEN None
    ELSE IF ies[1].tag = TagSsid THEN Some(ies[1].value)
         ELSE FirstSsid(Tail(ies))

DecodeErr(e) == [kind |-> e, source |-> NoAddr, destination |-> NoAddr,
                 receiver |-> NoAddr, ssid |-> None]

\* decode(bytes) -> Result<Frame, DecodeError>
decode(b) ==
    IF b.len < FrameControlLen THEN DecodeErr("Truncated")
    ELSE IF IsBeacon(b)
         THEN IF b.len < MacHeaderLen + BeaconFixedLen THEN DecodeErr("Truncated")
              ELSE IF \E i \in 1..Len(b.ies) : b.ies[i].length > b.ies[i].avail
                   THEN DecodeErr("MalformedElement")
                   ELSE [kind |-> "Beacon", source |-> b.addr2, destination |-> b.addr1,
                         receiver |-> NoAddr, ssid |-> FirstSsid(b.ies)]
         ELSE IF IsAck(b)
              THEN IF b.len < AckLen THEN DecodeErr("Truncated")
                   ELSE [kind |-> "Ack", source |-> NoAddr, destination |-> NoAddr,
                         receiver |-> b.addr1, ssid |-> None]
              ELSE DecodeErr("Unhandled")

\* What the loop binds from the decoder's result. main() passes the beacon's
\* ssid straight to KnownDevice::beacon(ssid: String) (main.rs:140-145, 183):
\* the frame carries a String, not an Option. Which String stands for a beacon
\* without an SSID element is the decoder's choice: any one.
Handed(res) ==
    {Pkt(res.kind, res.source, res.destination, res.receiver, n) :
        n \in IF res.kind = "Beacon"
               THEN (IF res.ssid = None THEN Ssids ELSE {res.ssid[1]})
               ELSE {""}}

\* capture.next() returns a packet with a well-formed radiotap header;
\* wifi::Frame::parse(data) decodes the bytes behind it
CaptureRaw ==
    /\ pc = "capture"
    /\ \E b \in Buffers :
          /\ buf' = b
          /\ \E p \in Handed(decode(b)) : packet' = p
    /\ pc' = "apply"
    /\ UNCHANGED <<devices, stdin, tabs, bar, hist, klog, titles, list, report, env, lastop>>

InitDecode ==
    /\ Start
    /\ env = [air |-> {}, keys |-> {}, qcap |-> 0, log |-> FALSE]

NextDecode ==
    \/ DrainDone
    \/ CaptureRaw
    \/ Sniff

SpecDecode == InitDecode /\ [][NextDecode]_vars

----------------------------------------------------------------------------
(* DeviceList::bar_data (main.rs:200-217) *)

\* the orders in which a HashMap may hand out the keys in S
Perms(S) ==
    {o \in [1..Cardinality(S) -> S] : \A i, j \in DOMAIN o : i # j => o[i] # o[j]}

\* the counting loop with insert(name, 1) taken for a name already counted too
RECURSIVE count_loop_no_increment(_, _, _)
count_loop_no_increment(map, order, m) ==
    IF order = <<>> THEN m
    ELSE LET device == map[Head(order)]
         IN  count_loop_no_increment(map, Tail(order),
                 IF device.manufacturer = None THEN m
                 ELSE LET name == device.manufacturer[1]
                      IN  [n \in DOMAIN m \cup {name} |-> IF n = name THEN 1 ELSE m[n]])

\* `for device in self.values()`: order is the iteration order of the catalog,
\* m the `manufacturers` map built so far
RECURSIVE count_loop(_, _, _)
count_loop(map, order, m) ==
    IF order = <<>> THEN m
    ELSE LET device == map[Head(order)]
         IN  count_loop(map, Tail(order),
                 IF device.manufacturer = None THEN m
                 ELSE LET name == device.manufacturer[1]
                      IN  IF name \in DOMAIN m
                          THEN [m EXCEPT ![name] = @ + 1]
                          ELSE [n \in DOMAIN m \cup {name} |->
                                   IF n = name THEN 1 ELSE m[n]])

\* the comparator given to sort_by: l.cmp(r).then_with(|| nl.cmp(nr)), as "x <= y"
cmp_le(x, y) ==
    \/ x[2] < y[2]
    \/ x[2] = y[2] /\ Rank(x[1]) <= Rank(y[1])

Front(v) == SubSeq(v, 1, Len(v) - 1)

Last(v) == v[Len(v)]

RECURSIVE insert_sorted(_, _)
insert_sorted(v, x) ==
    IF v = <<>> THEN <<x>>
    ELSE IF cmp_le(Last(v), x) THEN Append(v, x)
         ELSE Append(insert_sorted(Front(v), x), Last(v))

\* values.sort_by(..): a stable sort, ascending in the comparator
RECURSIVE sort_by(_)
sort_by(v) == IF v = <<>> THEN <<>> ELSE insert_sorted(sort_by(Front(v)), Last(v))

\* values.reverse()
reverse(v) == [i \in 1..Len(v) |-> v[Len(v) + 1 - i]]

\* bar_data with the catalog iterated in vorder and `manufacturers` in morder
bar_data(map, vorder, morder) ==
    LET manufacturers == count_loop(map, vorder, EmptyMap)
        values == [i \in 1..Len(morder) |-> <<morder[i], manufacturers[morder[i]]>>]
    IN  reverse(sort_by(values))

NumBarAddr == 4   \* records in a catalog handed to bar_data

\* catalogs of up to NumBarAddr records, under every database
BarCatalogs ==
    UNION {[D -> {[manufacturer |-> m, beacon |-> None, sent |-> FALSE] :
                     m \in {None} \cup {Some(n) : n \in VendorNames}}] :
           D \in SUBSET (1..NumBarAddr)}

InitBar ==
    /\ devices \in BarCatalogs
    /\ pc = "bar_call"
    /\ stdin = <<>>
    /\ tabs = 0
    /\ packet = NoPacket
    /\ bar = <<>>
    /\ lookups = Cardinality(DOMAIN devices)
    /\ seen = DOMAIN devices
    /\ sources = {}
    /\ lastBeacon = EmptyMap
    /\ clean = devices
    /\ pre = NoSubject
    /\ titles = NumPages
    /\ list = [selected |-> 0, item_count |-> 0]
    /\ report = None
    /\ buf = NoBuffer
    /\ env = [air |-> {}, keys |-> {}, qcap |-> 0, log |-> FALSE]
    /\ klog = [produced |-> <<>>, consumed |-> <<>>]
    /\ lastop = "new"

\* a call of devices.bar_data()
BarData ==
    /\ pc = "bar_call"
    /\ \E vorder \in Perms(DOMAIN devices) :
          \E morder \in Perms(DOMAIN count_loop(devices, vorder, EmptyMap)) :
             bar' = bar_data(devices, vorder, morder)
    /\ pc' = "bar_done"
    /\ UNCHANGED <<devices, stdin, tabs, packet, hist, aux, klog>>

NextBar == BarData

SpecBar == InitBar /\ [][NextBar]_vars

----------------------------------------------------------------------------
(* ui::ListState (ui.rs:62-108). The tui ListState inside it holds          *)
(* Option<usize>; every constructor selects Some(0) and no operation below  *)
(* stores None, so `selected` is the number inside the Some.                *)

MaxItems == 6     \* items a list is given
MaxDevices == 3   \* capture devices Device::list() returns
MaxTitles == 3    \* titles a TabState is built with

\* usize::saturating_sub
saturating_sub(x, y) == IF x < y THEN 0 ELSE x - y

with_item_count(item_count) == [selected |-> 0, item_count |-> item_count]

set_item_count(l, item_count) ==
    [selected |-> IF l.selected >= item_count
                  THEN saturating_sub(l.selected, 1)
                  ELSE l.selected,
     item_count |-> item_count]

up(l) ==
    [l EXCEPT !.selected = IF l.selected <= 0
                           THEN saturating_sub(l.item_count, 1)
                           ELSE saturating_sub(l.selected, 1)]

\* selected + 1 is taken only below item_count - 1: saturating_add never saturates
down(l) ==
    [l EXCEPT !.selected = IF l.selected >= saturating_sub(l.item_count, 1)
                           THEN 0
                           ELSE l.selected + 1]

top(l) == [l EXCEPT !.selected = 0]

bottom(l) == [l EXCEPT !.selected = saturating_sub(l.item_count, 1)]

\* everything that is not the list, the tabs or the key channel
Quiet ==
    /\ devices = EmptyMap
    /\ report = None
    /\ buf = NoBuffer
    /\ packet = NoPacket
    /\ bar = <<>>
    /\ klog = [produced |-> <<>>, consumed |-> <<>>]
    /\ lookups = 0
    /\ seen = {}
    /\ sources = {}
    /\ lastBeacon = EmptyMap
    /\ clean = EmptyMap
    /\ pre = NoSubject

quiet == <<devices, report, buf, packet, bar, klog, hist>>

\* a call of a ListState method by any owner of the list
ListCall(op, l) ==
    /\ pc = "list"
    /\ list' = l
    /\ lastop' = op
    /\ UNCHANGED <<pc, stdin, tabs, titles, env, quiet>>

WithItemCount == \E n \in 0..MaxItems : ListCall("with_item_count", with_item_count(n))

SetItemCount == \E n \in 0..MaxItems : ListCall("set_item_count", set_item_count(list, n))

Up == ListCall("up", up(list))

Down == ListCall("down", down(list))

Top == ListCall("top", top(list))

Bottom == ListCall("bottom", bottom(list))

\* impl Default for ListState
InitList ==
    /\ Quiet
    /\ pc = "list"
    /\ list = [selected |-> 0, item_count |-> 0]
    /\ lastop = "new"
    /\ stdin = <<>>
    /\ tabs = 0
    /\ titles = NumPages
    /\ env = [air |-> {}, keys |-> {}, qcap |-> 0, log |-> FALSE]

NextList ==
    \/ WithItemCount
    \/ SetItemCount
    \/ Up
    \/ Down
    \/ Top
    \/ Bottom

SpecList == InitList /\ [][NextList]_vars

----------------------------------------------------------------------------
(* The 'select_device loop (main.rs:46-71) *)

\* "Up" stands for Key::Up | Key::Char('w'), "Down" for Key::Down | Key::Char('s'),
\* "Enter" for Key::Char('\n')
SelectKeys ==
    {Key(n, 0) : n \in {"Esc", "Up", "Down", "PageUp", "PageDown", "Enter", "Other"}}

\* one iteration of `for key in input.stdin.iter()` that receives a key
SelectReceived(name) ==
    /\ pc = "select"
    /\ stdin # <<>>
    /\ Head(stdin).key = name
    /\ stdin' = Tail(stdin)

\* a key that moves the cursor, then the list is drawn again
SelectMove(name, l) ==
    /\ SelectReceived(name)
    /\ list' = l
    /\ UNCHANGED <<pc, tabs, titles, env, lastop, quiet>>

\* Key::Esc => return
SelectEsc ==
    /\ SelectReceived("Esc")
    /\ pc' = "returned"
    /\ UNCHANGED <<list, tabs, titles, env, lastop, quiet>>

SelectUp == SelectMove("Up", up(list))

SelectDown == SelectMove("Down", down(list))

SelectPageUp == SelectMove("PageUp", top(list))

SelectPageDown == SelectMove("PageDown", bottom(list))

\* Key::Char('\n') => break 'select_device devices[list_state.selected().unwrap()].clone()
\* indexing a Vec of item_count devices panics when the index is not below its length
SelectEnter ==
    /\ SelectReceived("Enter")
    /\ pc' = IF list.selected < list.item_count THEN "chosen" ELSE "panic"
    /\ UNCHANGED <<list, tabs, titles, env, lastop, quiet>>

\* _ => ()
SelectOther ==
    /\ SelectReceived("Other")
    /\ UNCHANGED <<pc, list, tabs, titles, env, lastop, quiet>>

\* let mut list_state = ui::ListState::with_item_count(devices.len())
InitSelect ==
    /\ Quiet
    /\ pc = "select"
    /\ list \in {with_item_count(n) : n \in 0..MaxDevices}
    /\ lastop = "new"
    /\ stdin = <<>>
    /\ tabs = 0
    /\ titles = NumPages
    /\ env = [air |-> {}, keys |-> SelectKeys, qcap |-> MaxLoopQueue, log |-> FALSE]

NextSelect ==
    \/ InputKey
    \/ SelectEsc
    \/ SelectUp
    \/ SelectDown
    \/ SelectPageUp
    \/ SelectPageDown
    \/ SelectEnter
    \/ SelectOther

SpecSelect == InitSelect /\ [][NextSelect]_vars

----------------------------------------------------------------------------
(* ui::TabState (ui.rs:131-158) built with any non-empty title list and     *)
(* driven by the key drain of the 'sniff loop                               *)

U8Max == 255

\* Key::F(i) with i inside every title list, past the end of some, and the largest u8
TabKeys ==
    {Key(n, 0) : n \in {"Tab", "Up", "Other"}}
    \cup {Key("F", i) : i \in 0..MaxTitles} \cup {Key("F", U8Max)}

\* tabs.previous(), which no key of the 'sniff loop is bound to
TabPrevious ==
    /\ pc = "drain"
    /\ tabs' = previous(tabs)
    /\ UNCHANGED <<pc, stdin, titles, list, env, lastop, quiet>>

\* TabState::new(titles): index 0
InitTab ==
    /\ Quiet
    /\ pc = "drain"
    /\ titles \in 1..MaxTitles
    /\ tabs = 0
    /\ list = [selected |-> 0, item_count |-> 0]
    /\ lastop = "new"
    /\ stdin = <<>>
    /\ env = [air |-> {}, keys |-> TabKeys, qcap |-> MaxLoopQueue, log |-> FALSE]

NextTab ==
    \/ InputKey
    \/ KeyF
    \/ KeyTab
    \/ KeyNav
    \/ KeyOther
    \/ TabPrevious

SpecTab == InitTab /\ [][NextTab]_vars

----------------------------------------------------------------------------
(* Properties *)

\* a step that takes the main thread out of the loop body for the held packet
Applies(kinds) == pc = "apply" /\ pc' # "apply" /\ packet.kind \in kinds

\* C1: once a record's sent flag is true it stays true in every later state,
\* whatever frame or key is handled next; marking a record that already has
\* the flag leaves the flag set.
C1_SentMonotonic ==
    [][\A a \in DOMAIN devices :
          devices[a].sent => a \in DOMAIN devices' /\ devices'[a].sent]_vars

\* a beacon has just been applied whose source already had the flag
C1_Witness ==
    /\ pc = "drain"
    /\ packet.kind = "Beacon"
    /\ pre.held = "sent"
    /\ devices[packet.source].sent

\* C2: bar_data returns its pairs in descending order of count, and pairs with
\* equal counts in ascending order of vendor name.
C2_DescCountAscName ==
    pc = "bar_done" =>
        \A i, j \in 1..Len(bar) :
            i < j => \/ bar[i][2] > bar[j][2]
                     \/ bar[i][2] = bar[j][2] /\ Rank(bar[i][1]) < Rank(bar[j][1])

RECURSIVE SumCounts(_)
SumCounts(v) == IF v = <<>> THEN 0 ELSE v[1][2] + SumCounts(Tail(v))

Resolved(map) == {a \in DOMAIN map : map[a].manufacturer # None}

\* C3: bar_data lists each vendor short name at most once, the count beside a
\* name is the number of records resolved to that name, and the counts add up
\* to the number of records with a resolved manufacturer (unresolved records
\* are counted nowhere).
C3_CountsPerVendor ==
    pc = "bar_done" =>
        /\ \A i, j \in 1..Len(bar) : i # j => bar[i][1] # bar[j][1]
        /\ \A i \in 1..Len(bar) :
              bar[i][2] = Cardinality({a \in DOMAIN devices :
                                          devices[a].manufacturer = Some(bar[i][1])})
        /\ SumCounts(bar) = Cardinality(Resolved(devices))

\* bar_data has run on a catalog with an unresolved record, a vendor with two
\* records and a second vendor
C3_Witness ==
    /\ pc = "bar_done"
    /\ \E a \in DOMAIN devices : devices[a].manufacturer = None
    /\ Len(bar) = 2
    /\ \E i \in 1..Len(bar) : bar[i][2] = 2

\* C4: get_or_default for an address that has a record adds no key and leaves
\* every record as it was; for an absent address it adds exactly one record,
\* with beacon = None and sent = false, and changes no other record. (An ack
\* is applied by exactly one get_or_default(receiver) call.) A second call
\* for the same address changes nothing.
C4_GetOrDefaultIdempotent ==
    /\ [][Applies({"Ack"}) =>
            LET r == packet.receiver
            IN  IF r \in DOMAIN devices
                THEN devices' = devices
                ELSE /\ DOMAIN devices' = DOMAIN devices \cup {r}
                     /\ devices'[r].beacon = None
                     /\ devices'[r].sent = FALSE
                     /\ \A a \in DOMAIN devices : devices'[a] = devices[a]]_vars
    /\ [](\A a \in Addresses :
             LET once == get_or_default([map |-> devices, lookups |-> lookups], a)
             IN  get_or_default(once, a) = once)

\* an ack has just been applied to a record that had sent and advertised an SSID
C4_Witness ==
    /\ pc = "drain"
    /\ packet.kind = "Ack"
    /\ pre.held = "sent"
    /\ devices[packet.receiver].sent
    /\ devices[packet.receiver].beacon # None

\* C5: the database is queried once per address, when its record is inserted:
\* the number of queries equals the number of records, and no step changes
\* the manufacturer of an existing record.
C5_LookupOncePerAddress ==
    /\ [](lookups = Cardinality(DOMAIN devices))
    /\ [][\A a \in DOMAIN devices :
             /\ a \in DOMAIN devices'
             /\ devices'[a].manufacturer = devices[a].manufacturer]_vars

\* a beacon from and to one known address has just been applied: three
\* get_or_default calls since the record was made, one query
C5_Witness ==
    /\ pc = "drain"
    /\ packet.kind = "Beacon"
    /\ packet.source = packet.destination
    /\ pre.held # "absent"
    /\ lookups = 1

\* C6: the beacon field of every address that has been a beacon source holds
\* the SSID of the most recently applied beacon from that source; beacons of
\* other sources, and frames naming the address as destination or receiver,
\* do not change it.
C6_LastWriteWins ==
    \A a \in DOMAIN lastBeacon :
        a \in DOMAIN devices /\ devices[a].beacon = Some(lastBeacon[a])

\* a beacon has just replaced a different SSID recorded for its source
C6_Witness ==
    /\ pc = "drain"
    /\ packet.kind = "Beacon"
    /\ pre.held = "sent"
    /\ pre.beacon # Some(packet.ssid)
    /\ devices[packet.source].beacon = Some(packet.ssid)

\* C7: the catalog's keys are exactly the addresses named as beacon source,
\* beacon destination or ack receiver by the decoded frames applied so far
\* (Unhandled frames and failed decodes name none), and no step removes a key.
C7_KeysAreSeen ==
    /\ [](DOMAIN devices = seen)
    /\ [][DOMAIN devices \subseteq DOMAIN devices']_vars

\* a beacon has just been applied whose destination never sent: both
\* addresses have records
C7_Witness ==
    /\ pc = "drain"
    /\ packet.kind = "Beacon"
    /\ packet.source # packet.destination
    /\ DOMAIN devices = {packet.source, packet.destination}
    /\ ~devices[packet.destination].sent

\* C8: a frame whose decode fails (Truncated or MalformedElement) leaves the
\* catalog unchanged and the loop goes back to its top; the catalog always
\* equals the one folded from the decoded frames alone.
C8_DecodeFailureIsLocal ==
    /\ [][Applies(DecodeErrors) => devices' = devices /\ pc' = "drain"]_vars
    /\ [](devices = clean)

\* after a failed decode on a non-empty catalog the loop is waiting for the
\* next packet
C8_Witness ==
    /\ pc = "capture"
    /\ packet.kind \in DecodeErrors
    /\ devices # EmptyMap

\* C9: a packet whose radiotap header is malformed is skipped: the loop goes
\* back to its top with the catalog unchanged.
C9_BadRadiotapSkipped ==
    [][Applies({"BadRadiotap"}) => devices' = devices /\ pc' = "drain"]_vars

\* C10: a record's sent flag is true exactly when its address has been the
\* source of an applied beacon.
C10_SentIffSource ==
    /\ sources \subseteq DOMAIN devices
    /\ \A a \in DOMAIN devices : devices[a].sent <=> a \in sources

\* an ack has just been applied and the catalog holds both a record that
\* sent and one known only by reference
C10_Witness ==
    /\ pc = "drain"
    /\ packet.kind = "Ack"
    /\ \E a, b \in DOMAIN devices : devices[a].sent /\ ~devices[b].sent

\* C11: the beacon field is None for every address that has never been the
\* source of an applied beacon; being a beacon's destination or an ack's
\* receiver does not set it.
C11_NoSsidUnlessSource ==
    \A a \in DOMAIN devices : a \notin sources => devices[a].beacon = None

\* a beacon has just been applied: its source holds the SSID, its
\* destination, which never sent, holds none
C11_Witness ==
    /\ pc = "drain"
    /\ packet.kind = "Beacon"
    /\ packet.destination \notin sources
    /\ devices[packet.source].beacon = Some(packet.ssid)
    /\ devices[packet.destination].beacon = None

InLoop == pc \in {"drain", "capture", "apply"}

EscQueued == \E i \in 1..Len(stdin) : stdin[i].key = "Esc"

\* the liveness half of C13 alone
QuitLeadsToEnd == EscQueued ~> ~InLoop

\* C13: once an Esc is in the channel while the loop runs, the loop
\* eventually ends; and the loop ends only by handling an Esc or by a fatal
\* collaborator failure (the capture source or the terminal failing).
C13_QuitTerminates ==
    /\ EscQueued ~> ~InLoop
    /\ [][InLoop /\ ~InLoop' =>
            \/ pc = "drain" /\ stdin # <<>> /\ Head(stdin).key = "Esc" /\ pc' = "done"
            \/ pc \in {"drain", "capture"} /\ pc' = "panic"]_vars

\* C14: the loop receives the keys in the order the input thread sent them,
\* each once: the keys sent are the keys received followed by those still in
\* the channel; when the loop has ended on Esc, every key sent before that
\* Esc has been received.
C14_KeysInOrder ==
    /\ klog.produced = klog.consumed \o stdin
    /\ pc \in {"done", "exited"} =>
          /\ klog.consumed # <<>>
          /\ klog.consumed[Len(klog.consumed)].key = "Esc"
          /\ \A i \in 1..(Len(klog.consumed) - 1) : klog.consumed[i].key # "Esc"

\* two keys have been received and another is waiting
C14_Witness ==
    /\ Len(klog.consumed) >= 2
    /\ stdin # <<>>
    /\ klog.consumed[1] # klog.consumed[2]

\* C15: the drain ends only on an empty channel (every queued key has been
\* handled) and never waits on one; the loop then takes one packet and applies
\* it before it drains again: packets are taken only in capture.next(), the
\* catalog changes only in the step that applies the packet.
C15_DrainThenOneFrame ==
    /\ [][pc = "drain" /\ pc' = "capture" => stdin = <<>>]_vars
    /\ [](pc = "drain" => ENABLED MainStep)
    /\ [][pc = "capture" /\ pc' # "capture" => pc' \in {"apply", "panic"}]_vars
    /\ [][pc = "apply" /\ pc' # "apply" => pc' \in {"drain", "panic"}]_vars
    /\ [][packet' # packet => pc = "capture"]_vars
    /\ [][devices' # devices => pc = "apply" /\ pc' = "drain"]_vars

\* the first drain has handled two keys and the loop now waits for a packet
C15_Witness ==
    /\ pc = "capture"
    /\ packet = NoPacket
    /\ Len(klog.consumed) >= 2
    /\ stdin = <<>>

\* C16: after the quit key is handled no packet is taken or applied and no
\* record changes, and the exit report lists the catalog as the last applied
\* frame left it.
C16_ReportIsFinalCatalog ==
    /\ [][~InLoop => devices' = devices /\ packet' = packet]_vars
    /\ [][devices' # devices => pc = "apply"]_vars
    /\ [](pc = "exited" => report = Some(devices))

\* the report has been printed for a catalog that holds records
C16_Witness ==
    /\ pc = "exited"
    /\ devices # EmptyMap
    /\ report = Some(devices)

Short(b) == b.len >= FrameControlLen /\ b.len < MinLen(b)

\* C17: for a buffer shorter than its type and subtype require (a beacon
\* under 36 bytes, an ack under 10) the decoder's result is Truncated, not a
\* frame and not MalformedElement, and applying it leaves the catalog as it was.
C17_ShortIsTruncated ==
    /\ [](pc \in {"apply", "drain"} /\ Short(buf) => packet.kind = "Truncated")
    /\ [][pc = "apply" /\ pc' # "apply" /\ Short(buf) => devices' = devices]_vars

\* a beacon cut short inside its fixed body has been decoded and applied on
\* a catalog that holds records
C17_Witness ==
    /\ pc = "drain"
    /\ IsBeacon(buf)
    /\ buf.len >= MacHeaderLen
    /\ Short(buf)
    /\ packet.kind = "Truncated"
    /\ devices # EmptyMap

\* C18 as claimed: after any sequence of with_item_count, set_item_count,
\* up, down, top and bottom, a list with items has its selection below
\* item_count.
C18_SelectionInRange ==
    list.item_count > 0 => list.selected < list.item_count

\* C19 as claimed: for any number of devices, zero included, and any keys
\* before it, Enter indexes the device list inside its bounds: the loop never
\* panics and the index it leaves with is below the number of devices.
C19_EnterIndexValid ==
    /\ pc # "panic"
    /\ pc = "chosen" => list.selected < list.item_count

\* C20: built with a non-empty title list, after any sequence of select(i),
\* next and previous the index is below titles.len(), so pages[tabs.index]
\* is in bounds whatever keys arrive; next takes the last tab to 0 and
\* otherwise one up, previous takes 0 to the last tab and otherwise one down.
C20_TabIndexValid ==
    /\ [](tabs < titles)
    /\ [][stdin # <<>> /\ stdin' = Tail(stdin) /\ Head(stdin).key = "Tab" =>
            tabs' = IF tabs = titles - 1 THEN 0 ELSE tabs + 1]_vars
    /\ [][stdin' = stdin =>
            tabs' = IF tabs = 0 THEN titles - 1 ELSE tabs - 1]_vars
    /\ [][stdin # <<>> /\ stdin' = Tail(stdin) /\ Head(stdin).key = "F" =>
            tabs' < titles /\ (Head(stdin).i < titles => tabs' = Head(stdin).i)]_vars

\* an F key past the end of a three-title list is waiting while the last tab
\* is shown
C20_Witness ==
    /\ titles = MaxTitles
    /\ tabs = titles - 1
    /\ stdin # <<>>
    /\ Head(stdin).key = "F"
    /\ Head(stdin).i >= titles

============================================================================
